---- MODULE Spec2Model ----
(***************************************************************************)
(* Model of semver.py: the commit-history walk of main(), which derives a  *)
(* semantic version per commit (bump_version), and tags each commit with   *)
(* `git tag v<version> <commit>`.  Text is modelled as sequences of        *)
(* one-character strings so that parsing, formatting, lower-casing and     *)
(* substring search are computed as the code computes them.                *)
(***************************************************************************)
EXTENDS Integers, Sequences, FiniteSets, TLC

(* ------------------------------ bounds --------------------------------- *)
MaxCommits == 3
MaxRuns == 2
MaxComp == 10
MaxBumps == 1
MaxFrags == 2

(* --------------------------- text primitives --------------------------- *)
UpperCase == <<"A", "B", "C", "D", "E", "F", "G", "H", "I", "J", "K", "L", "M", "N", "O", "P", "Q", "R", "S", "T", "U", "V", "W", "X", "Y", "Z">>

LowerCase == <<"a", "b", "c", "d", "e", "f", "g", "h", "i", "j", "k", "l", "m", "n", "o", "p", "q", "r", "s", "t", "u", "v", "w", "x", "y", "z">>

Digits == <<"0", "1", "2", "3", "4", "5", "6", "7", "8", "9">>

Whitespace == {" ", "\n", "\t"}

\* str.lower() on one character
LowerChar(ch) ==
  IF \E k \in 1..26 : UpperCase[k] = ch
  THEN LowerCase[CHOOSE k \in 1..26 : UpperCase[k] = ch]
  ELSE ch

\* str.lower()
lower(s) == [k \in 1..Len(s) |-> LowerChar(s[k])]

\* the `sub in s` substring test
Contains(sub, s) ==
  \E p \in 0..(Len(s) - Len(sub)) :
    \A k \in 1..Len(sub) : s[p + k] = sub[k]

\* str.strip(): drop leading and trailing whitespace
strip(s) ==
  LET keep == {k \in 1..Len(s) : s[k] \notin Whitespace}
  IN  IF keep = {} THEN <<>>
      ELSE LET lo == CHOOSE k \in keep : \A m \in keep : k <= m
               hi == CHOOSE k \in keep : \A m \in keep : k >= m
           IN  SubSeq(s, lo, hi)

\* str.split(sep) for a one-character separator
RECURSIVE split(_, _)
split(s, sep) ==
  LET hits == {k \in 1..Len(s) : s[k] = sep}
  IN  IF hits = {} THEN <<s>>
      ELSE LET p == CHOOSE k \in hits : \A m \in hits : k <= m
           IN  <<SubSeq(s, 1, p - 1)>> \o split(SubSeq(s, p + 1, Len(s)), sep)

\* int(text) for a string of decimal digits
RECURSIVE int(_)
int(s) ==
  IF Len(s) = 0 THEN 0
  ELSE 10 * int(SubSeq(s, 1, Len(s) - 1))
       + ((CHOOSE d \in 1..10 : Digits[d] = s[Len(s)]) - 1)

\* the f-string rendering "{n}" of a non-negative integer
RECURSIVE str(_)
str(n) ==
  IF n < 10 THEN <<Digits[n + 1]>>
  ELSE str(n \div 10) \o <<Digits[(n % 10) + 1]>>

(* ------------------------------ semver.py ------------------------------ *)
BASE_VERSION == <<"0", ".", "0", ".", "0">>

parse_version(v) ==
  LET parts == split(v, ".")
  IN  <<int(parts[1]), int(parts[2]), int(parts[3])>>

FormatVersion(major, minor, patch) ==
  str(major) \o <<".">> \o str(minor) \o <<".">> \o str(patch)

\* bump_version with the major branch leaving the major digit alone
bump_versionNoMajorIncrement(version, level) ==
  LET t == parse_version(version)
  IN  IF level = "major" THEN FormatVersion(t[1], 0, 0)
      ELSE IF level = "minor" THEN FormatVersion(t[1], t[2] + 1, 0)
      ELSE FormatVersion(t[1], t[2], t[3] + 1)

\* bump_version with the minor branch keeping the patch digit
bump_versionNoPatchReset(version, level) ==
  LET t == parse_version(version)
  IN  IF level = "major" THEN FormatVersion(t[1] + 1, 0, 0)
      ELSE IF level = "minor" THEN FormatVersion(t[1], t[2] + 1, t[3])
      ELSE FormatVersion(t[1], t[2], t[3] + 1)

bump_version(version, level) ==
  LET t == parse_version(version)
  IN  IF level = "major" THEN FormatVersion(t[1] + 1, 0, 0)
      ELSE IF level = "minor" THEN FormatVersion(t[1], t[2] + 1, 0)
      ELSE FormatVersion(t[1], t[2], t[3] + 1)

MajorMarker == <<"[", "m", "a", "j", "o", "r", "]">>

MinorMarker == <<"[", "m", "i", "n", "o", "r", "]">>

\* the classification with the minor marker tested first
LevelMinorFirst(m) ==
  IF Contains(MinorMarker, lower(m)) THEN "minor"
  ELSE IF Contains(MajorMarker, lower(m)) THEN "major"
  ELSE "patch"

\* the if/elif/else of main() that sets `level`
Level(m) ==
  IF Contains(MajorMarker, lower(m)) THEN "major"
  ELSE IF Contains(MinorMarker, lower(m)) THEN "minor"
  ELSE "patch"

\* `git log -1 --pretty=%B <commit>`: the raw body, newline-terminated
GitLogBody(h, c) == h[c] \o <<"\n">>

get_commit_message(h, c) == strip(GitLogBody(h, c))

\* `git rev-list --reverse HEAD`: commit ids, oldest first
get_commits(h) == [k \in 1..Len(h) |-> k]

\* the tag name f"v{version}"
TagName(version) == <<"v">> \o version

\* new_msg = f"[v{version}] {msg}"
NewMsg(version, m) == <<"[", "v">> \o version \o <<"]", " ">> \o m

\* the loop body with the rewrite_commit_message call enabled
HistoryRewritten(h, c, new_msg) == [h EXCEPT ![c] = new_msg]

\* effect of one loop iteration on the history: the rewrite call is
\* commented out, so there is none
HistoryAfterCommit(h, c, new_msg) == h

\* `git tag -f`: an existing name is moved to the new commit
GitTagForce(plat, tg, name, c, storeOk) ==
  IF plat = "posix" THEN [tags |-> tg, result |-> "NoCommand"]
  ELSE IF storeOk
       THEN [tags |-> [n \in DOMAIN tg \cup {name} |->
                         IF n = name THEN c ELSE tg[n]],
             result |-> "success"]
       ELSE [tags |-> tg, result |-> "WriteFailed"]

\* subprocess.run(["git", "tag", name, c], shell=True).
\* With shell=True and an argument list, POSIX runs `sh -c git` with the
\* remaining items as the shell's own arguments: git prints its usage and
\* no tag is written.  On Windows the list is joined into `git tag name c`,
\* which refuses an existing name and otherwise creates the tag unless the
\* tag store rejects the write.
GitTag(plat, tg, name, c, storeOk) ==
  IF plat = "posix" THEN [tags |-> tg, result |-> "NoCommand"]
  ELSE IF name \in DOMAIN tg
       THEN [tags |-> tg, result |-> "AlreadyExists"]
       ELSE IF storeOk
            THEN [tags |-> tg @@ (name :> c), result |-> "success"]
            ELSE [tags |-> tg, result |-> "WriteFailed"]

\* subprocess.run with check=True: a non-zero exit raises
ContinueOnlyOnSuccess(result) == result = "success"

\* subprocess.run is called without check=True and its result is dropped:
\* whatever the command returns, the loop goes on
ContinueAfterTag(result) == TRUE

(* ------------------------------- state --------------------------------- *)
VARIABLES
  history,      \* the repository's commits: raw message per commit id 1..n
  tags,         \* the tag namespace: tag name -> commit id
  platform,     \* "posix" or "nt": decides how shell=True treats a list
  run,          \* number of the current run of main()
  pc,           \* position of the current run
  commits,      \* main(): commits
  i,            \* main(): index of the loop variable c in commits
  version,      \* main(): version
  msg,          \* main(): msg
  derived,      \* versions derived by the current run, in order: the
                \* version string and its (major, minor, patch) reading
  outcomes,     \* tag invocations of the current run, in order
  tags0,        \* the tag namespace when the current run started
  readFailedAt, \* index of the commit whose message read failed, else 0
  prev,         \* record of the previous run
  pin, pop, pout, pn  \* input, operation, output, step count of the
                      \* pure-function specifications

vars == <<history, tags, platform, run, pc, commits, i, version, msg,
          derived, outcomes, tags0, readFailedAt, prev, pin, pop, pout, pn>>

mainVars == <<history, tags, platform, run, pc, commits, i, version, msg,
              derived, outcomes, tags0, readFailedAt, prev>>

pureVars == <<pin, pop, pout, pn>>

(* ----------------------------- inputs ---------------------------------- *)
Msgs == {
  <<"i", "n", "i", "t">>,
  <<"[", "m", "i", "n", "o", "r", "]", " ", "a", "d", "d", " ", "f", "e", "a", "t", "u", "r", "e">>,
  <<"[", "m", "a", "j", "o", "r", "]", " ", "b", "r", "e", "a", "k", "i", "n", "g", " ", "c", "h", "a", "n", "g", "e">> }

Histories == UNION {[1..n -> Msgs] : n \in 1..MaxCommits}

NoTags == [n \in {} |-> 0]

\* tag namespaces a repository may hold before the first run
InitTagSets == {NoTags, (<<"v", "0", ".", "1", ".", "0">> :> 1)}

\* the results the tag invocations of a run returned
Results(os) == {os[k].result : k \in DOMAIN os}

NoRun == [end |-> "none", derived |-> <<>>, allSuccess |-> FALSE]

Init ==
  /\ history \in Histories
  /\ tags \in InitTagSets
  /\ platform \in {"posix", "nt"}
  /\ run = 1
  /\ pc = "start"
  /\ commits = <<>>
  /\ i = 0
  /\ version = <<>>
  /\ msg = <<>>
  /\ derived = <<>>
  /\ outcomes = <<>>
  /\ tags0 = tags
  /\ readFailedAt = 0
  /\ prev = NoRun
  /\ pin = <<>> /\ pop = "none" /\ pout = <<>> /\ pn = 0

(* ------------------------------ main() --------------------------------- *)
\* commits = get_commits(); version = BASE_VERSION
GetCommits ==
  /\ pc = "start"
  /\ commits' = get_commits(history)
  /\ version' = BASE_VERSION
  /\ i' = 1
  /\ pc' = IF Len(history) = 0 THEN "done" ELSE "read"
  /\ UNCHANGED <<history, tags, platform, run, msg, derived, outcomes,
                 tags0, readFailedAt, prev, pureVars>>

\* get_commits(): check_output raises, main() dies with the exception
GetCommitsFails ==
  /\ pc = "start"
  /\ pc' = "aborted"
  /\ UNCHANGED <<history, tags, platform, run, commits, i, version, msg,
                 derived, outcomes, tags0, readFailedAt, prev, pureVars>>

\* msg = get_commit_message(c); level; version = bump_version(version, level)
ReadAndBump ==
  /\ pc = "read"
  /\ msg' = get_commit_message(history, commits[i])
  /\ version' = bump_version(version, Level(msg'))
  /\ derived' = Append(derived, [text |-> version',
                                 triple |-> parse_version(version')])
  /\ pc' = "tag"
  /\ UNCHANGED <<history, tags, platform, run, commits, i, outcomes,
                 tags0, readFailedAt, prev, pureVars>>

\* the failed read swallowed (subprocess.run in place of check_output):
\* the loop goes on with an empty message
ReadFailsIgnored ==
  /\ pc = "read"
  /\ readFailedAt' = i
  /\ msg' = <<>>
  /\ version' = bump_version(version, Level(msg'))
  /\ derived' = Append(derived, [text |-> version',
                                 triple |-> parse_version(version')])
  /\ pc' = "tag"
  /\ UNCHANGED <<history, tags, platform, run, commits, i, outcomes,
                 tags0, prev, pureVars>>

\* get_commit_message(c): check_output raises, main() dies with the exception
ReadFails ==
  /\ pc = "read"
  /\ readFailedAt' = i
  /\ pc' = "aborted"
  /\ UNCHANGED <<history, tags, platform, run, commits, i, version, msg,
                 derived, outcomes, tags0, prev, pureVars>>

\* the tag step with the bump undone when the tag was not written
TagCommitRollback(storeOk) ==
  /\ pc = "tag"
  /\ LET c == commits[i]
         r == GitTag(platform, tags, TagName(version), c, storeOk)
     IN  /\ tags' = r.tags
         /\ outcomes' = Append(outcomes,
                [commit |-> c, name |-> TagName(version), result |-> r.result])
         /\ history' = HistoryAfterCommit(history, c, NewMsg(version, msg))
         /\ version' = IF r.result = "success" THEN version
                       ELSE IF i = 1 THEN BASE_VERSION ELSE derived[i - 1].text
         /\ IF ContinueAfterTag(r.result)
            THEN IF i < Len(commits)
                 THEN i' = i + 1 /\ pc' = "read"
                 ELSE i' = i /\ pc' = "done"
            ELSE i' = i /\ pc' = "aborted"
  /\ UNCHANGED <<platform, run, commits, msg, derived, tags0,
                 readFailedAt, prev, pureVars>>

\* new_msg, print, the commented-out rewrite, and
\* subprocess.run(["git", "tag", f"v{version}", c], shell=True)
TagCommit(storeOk) ==
  /\ pc = "tag"
  /\ LET c == commits[i]
         r == GitTag(platform, tags, TagName(version), c, storeOk)
     IN  /\ tags' = r.tags
         /\ outcomes' = Append(outcomes,
                [commit |-> c, name |-> TagName(version), result |-> r.result])
         /\ history' = HistoryAfterCommit(history, c, NewMsg(version, msg))
         /\ IF ContinueAfterTag(r.result)
            THEN IF i < Len(commits)
                 THEN i' = i + 1 /\ pc' = "read"
                 ELSE i' = i /\ pc' = "done"
            ELSE i' = i /\ pc' = "aborted"
  /\ UNCHANGED <<platform, run, commits, version, msg, derived, tags0,
                 readFailedAt, prev, pureVars>>

\* the process is terminated while main() is running
Terminate ==
  /\ pc \in {"start", "read", "tag"}
  /\ pc' = "killed"
  /\ UNCHANGED <<history, tags, platform, run, commits, i, version, msg,
                 derived, outcomes, tags0, readFailedAt, prev, pureVars>>

\* the script is started again: main()'s locals are fresh
StartRun ==
  /\ pc \in {"done", "aborted", "killed"}
  /\ run < MaxRuns
  /\ run' = run + 1
  /\ prev' = [end |-> pc, derived |-> derived,
              allSuccess |-> (Results(outcomes) = {"success"})]
  /\ pc' = "start"
  /\ commits' = <<>>
  /\ i' = 0
  /\ version' = <<>>
  /\ msg' = <<>>
  /\ derived' = <<>>
  /\ outcomes' = <<>>
  /\ tags0' = tags
  /\ readFailedAt' = 0
  /\ UNCHANGED <<history, tags, platform, pureVars>>

Next ==
  \/ GetCommits
  \/ GetCommitsFails
  \/ ReadAndBump
  \/ ReadFails
  \/ \E storeOk \in BOOLEAN : TagCommit(storeOk)
  \/ Terminate
  \/ StartRun

Spec == Init /\ [][Next]_vars

(* ------------------- bump_version as a pure function ------------------- *)
Levels == {"major", "minor", "patch"}

\* the main() variables while no run is modelled
MainIdle ==
  /\ history = <<>>
  /\ tags = NoTags
  /\ platform = "posix"
  /\ run = 0
  /\ pc = "off"
  /\ commits = <<>>
  /\ i = 0
  /\ version = <<>>
  /\ msg = <<>>
  /\ derived = <<>>
  /\ outcomes = <<>>
  /\ tags0 = NoTags
  /\ readFailedAt = 0
  /\ prev = NoRun

InitBump ==
  /\ MainIdle
  /\ pin \in (0..MaxComp) \X (0..MaxComp) \X (0..MaxComp)
  /\ pop = "none"
  /\ pout = pin
  /\ pn = 0

\* version = bump_version(version, level) on the rendered version string
BumpStep(level) ==
  /\ pn < MaxBumps
  /\ pin' = pout
  /\ pop' = level
  /\ pout' = parse_version(
               bump_version(FormatVersion(pout[1], pout[2], pout[3]), level))
  /\ pn' = pn + 1
  /\ UNCHANGED mainVars

NextBump == \E level \in Levels : BumpStep(level)

SpecBump == InitBump /\ [][NextBump]_vars

(* ------------------ classification as a pure function ------------------ *)
Fragments == {
  <<"[", "m", "a", "j", "o", "r", "]">>,
  <<"[", "M", "A", "J", "O", "R", "]">>,
  <<"[", "m", "I", "n", "O", "r", "]">>,
  <<"[", "m", "i", "n", "o", "r", "]">>,
  <<"[", "m", "a", "j", "o", "r">>,
  <<"[", "M", "i">>,
  <<"n", "o", "r", "]">>,
  <<"f", "i", "x">>,
  <<"f", "i", "x", " ", "[", "M", "I", "N", "O", "R", "]", " ", "b", "u", "g", " ", "[", "m", "a", "j", "o", "r", "]">>,
  <<"[", "M", "A", "J", "O", "R", "]", " ", "f", "i", "x", " ", "[", "m", "i", "n", "o", "r", "]", " ", "t", "y", "p", "o">>,
  <<" ">>,
  <<"\n">> }

RECURSIVE Concats(_)
Concats(n) ==
  IF n = 0 THEN {<<>>}
  ELSE LET shorter == Concats(n - 1)
       IN  shorter \cup {f \o m : f \in Fragments, m \in shorter}

InitClassify ==
  /\ MainIdle
  /\ pin \in Concats(MaxFrags)
  /\ pop = "none"
  /\ pout = <<>>
  /\ pn = 0

\* msg = get_commit_message(c) followed by the if/elif/else on msg.lower()
ClassifyStep ==
  /\ pop = "none"
  /\ pop' = "classified"
  /\ pout' = Level(get_commit_message(<<pin>>, 1))
  /\ pn' = pn + 1
  /\ UNCHANGED <<pin, mainVars>>

NextClassify == ClassifyStep

SpecClassify == InitClassify /\ [][NextClassify]_vars

(* ------------------------------ properties ----------------------------- *)
LexLess(a, b) ==
  \/ a[1] < b[1]
  \/ a[1] = b[1] /\ a[2] < b[2]
  \/ a[1] = b[1] /\ a[2] = b[2] /\ a[3] < b[3]

TagsOf(c) == {n \in DOMAIN tags : tags[n] = c}

\* C1: within a run the versions derived for the commits are strictly
\* increasing in history order under the lexicographic order on
\* (major, minor, patch), and the first one is above (0,0,0).
C1_Monotonic ==
  /\ \A a, b \in DOMAIN derived :
       a < b => LexLess(derived[a].triple, derived[b].triple)
  /\ \A a \in DOMAIN derived : LexLess(<<0, 0, 0>>, derived[a].triple)

C1_Witness ==
  /\ pc = "done"
  /\ Len(derived) >= 3
  /\ Level(get_commit_message(history, 2)) = "major"
  /\ Level(get_commit_message(history, 3)) = "patch"

\* C2: bump_version maps (major, minor, patch) to (major+1, 0, 0) for a
\* major bump, (major, minor+1, 0) for a minor bump and
\* (major, minor, patch+1) for a patch bump.
C2_BumpResets ==
  /\ pop = "major" => pout = <<pin[1] + 1, 0, 0>>
  /\ pop = "minor" => pout = <<pin[1], pin[2] + 1, 0>>
  /\ pop = "patch" => pout = <<pin[1], pin[2], pin[3] + 1>>

C2_Witness ==
  /\ pop = "minor"
  /\ pin = <<10, 9, 7>>
  /\ pout = <<10, 10, 0>>

\* the marker "[" w "]" occurs in s with each letter in either case
MarkerAnyCase(s, w) ==
  \E p \in 1..(Len(s) - 6) :
    /\ s[p] = "["
    /\ \A k \in 1..5 : s[p + k] \in w[k]
    /\ s[p + 6] = "]"

MajorCases == <<{"m", "M"}, {"a", "A"}, {"j", "J"}, {"o", "O"}, {"r", "R"}>>

MinorCases == <<{"m", "M"}, {"i", "I"}, {"n", "N"}, {"o", "O"}, {"r", "R"}>>

\* C3: a message holding [major] in any letter case is a major bump, also
\* when it holds [minor]; one holding [minor] but not [major] is a minor
\* bump; every other message, the empty one included, is a patch bump.
C3_Classification ==
  pop = "classified" =>
    /\ pout \in Levels
    /\ MarkerAnyCase(pin, MajorCases) => pout = "major"
    /\ MarkerAnyCase(pin, MinorCases) /\ ~MarkerAnyCase(pin, MajorCases)
         => pout = "minor"
    /\ ~MarkerAnyCase(pin, MinorCases) /\ ~MarkerAnyCase(pin, MajorCases)
         => pout = "patch"

C3_Witness ==
  /\ pop = "classified"
  /\ pin = <<"[", "m", "I", "n", "O", "r", "]">> \o <<"[", "M", "A", "J", "O", "R", "]">>
  /\ pout = "major"

ExampleHistory == <<
  <<"i", "n", "i", "t">>,
  <<"[", "m", "i", "n", "o", "r", "]", " ", "a", "d", "d", " ", "f", "e", "a", "t", "u", "r", "e">>,
  <<"[", "m", "a", "j", "o", "r", "]", " ", "b", "r", "e", "a", "k", "i", "n", "g", " ", "c", "h", "a", "n", "g", "e">> >>

ExampleTags ==
  (<<"v", "0", ".", "0", ".", "1">> :> 1)
  @@ (<<"v", "0", ".", "1", ".", "0">> :> 2)
  @@ (<<"v", "1", ".", "0", ".", "0">> :> 3)

\* C4: after a complete run that started from an empty tag namespace (and
\* in which the tag store rejected no write), every commit carries exactly
\* one tag, v<major>.<minor>.<patch> of the version derived for it; the
\* history "init", "[minor] add feature", "[major] breaking change" ends
\* tagged v0.0.1, v0.1.0, v1.0.0.
C4_OneTagPerCommit ==
  (pc = "done" /\ tags0 = NoTags /\ "WriteFailed" \notin Results(outcomes)) =>
    /\ \A c \in 1..Len(history) : TagsOf(c) = {TagName(derived[c].text)}
    /\ history = ExampleHistory => tags = ExampleTags

PrevFullSuccess ==
  /\ prev.end = "done"
  /\ prev.allSuccess

\* C5: in a run that follows a run which tagged every commit successfully,
\* every tag assignment comes back AlreadyExists, the tag namespace stays
\* as it was, and each commit's derived version is the one the earlier run
\* derived and tagged on it.
C5_IdempotentRerun ==
  (run >= 2 /\ PrevFullSuccess) =>
    /\ tags = tags0
    /\ \A k \in DOMAIN outcomes : outcomes[k].result = "AlreadyExists"
    /\ \A k \in DOMAIN derived :
         /\ derived[k] = prev.derived[k]
         /\ TagName(derived[k].text) \in DOMAIN tags
         /\ tags[TagName(derived[k].text)] = k

C5_Witness ==
  /\ run >= 2
  /\ PrevFullSuccess
  /\ pc = "done"
  /\ Len(outcomes) >= 2

\* C6 as stated: a run aborted by a failed history read (listing the
\* commits or reading any commit's message) has written no tag.
C6_AbortWritesNothing ==
  pc = "aborted" => tags = tags0

\* C6 amended: a failed listing aborts the run with no tag written; a
\* failed read of commit k's message aborts the run with no tag attempted
\* or written for commit k or any later commit, the tags already written
\* for earlier commits staying in place.
C6_AbortStopsTagging ==
  /\ (pc = "aborted" /\ readFailedAt = 0) => (tags = tags0 /\ outcomes = <<>>)
  /\ readFailedAt # 0 =>
       /\ pc = "aborted"
       /\ \A k \in DOMAIN outcomes : outcomes[k].commit < readFailedAt
       /\ \A n \in DOMAIN tags :
            n \in DOMAIN tags0 \/ tags[n] < readFailedAt

C6_Witness ==
  /\ pc = "aborted"
  /\ readFailedAt = 2
  /\ tags # tags0

\* C7: a run derives for every commit the version the previous run derived
\* for it, whatever the tag writes returned in either run, and a tag write,
\* failed or not, leaves the running version at the version derived for
\* the commit just processed.
C7_Reproducible ==
  /\ \A k \in DOMAIN derived \cap DOMAIN prev.derived :
       derived[k] = prev.derived[k]
  /\ (pc \in {"read", "done"} /\ Len(derived) > 0) =>
       version = derived[Len(derived)].text

C7_Witness ==
  /\ run >= 2
  /\ pc = "done"
  /\ Len(derived) >= 2
  /\ Len(prev.derived) >= 2
  /\ prev.end = "done"
  /\ ~prev.allSuccess
  /\ Results(outcomes) = {"success", "AlreadyExists", "WriteFailed"}

\* C8: a rejected tag write does not stop the run: tag assignments are
\* attempted once per commit in history order, a run whose history reads
\* succeed attempts one for every commit, only a failed history read aborts
\* a run, and a commit whose write was rejected gets no new tag.
C8_RejectedWriteNonFatal ==
  /\ \A k \in DOMAIN outcomes : outcomes[k].commit = k
  /\ pc = "done" => Len(outcomes) = Len(history)
  /\ pc = "aborted" => (readFailedAt # 0 \/ outcomes = <<>>)
  /\ \A k \in DOMAIN outcomes :
       outcomes[k].result # "success" =>
         \A n \in DOMAIN tags :
           tags[n] = outcomes[k].commit =>
             (n \in DOMAIN tags0 /\ tags0[n] = tags[n])

C8_Witness ==
  /\ pc = "done"
  /\ Len(outcomes) >= 3
  /\ outcomes[1].result = "WriteFailed"
  /\ outcomes[2].result = "AlreadyExists"
  /\ outcomes[3].result = "success"

\* C9: a terminated run that started from an empty tag namespace leaves a
\* prefix of the commits tagged, and the complete run that follows a
\* terminated run (the namespace holding nothing but what that run left,
\* the tag store rejecting no write) leaves every commit with exactly the
\* tag of its derived version.
C9_SafeRerun ==
  /\ (pc = "killed" /\ tags0 = NoTags
      /\ "WriteFailed" \notin Results(outcomes)) =>
       \E p \in 0..Len(history) : {tags[n] : n \in DOMAIN tags} = 1..p
  /\ (/\ run >= 2 /\ pc = "done" /\ prev.end = "killed"
      /\ \A n \in DOMAIN tags0 :
           \E k \in DOMAIN derived :
             n = TagName(derived[k].text) /\ tags0[n] = k
      /\ "WriteFailed" \notin Results(outcomes)) =>
       \A c \in 1..Len(history) : TagsOf(c) = {TagName(derived[c].text)}

\* C10: no step of a run removes or moves an existing tag, and no step
\* changes the commit sequence or a commit message.
C10_Frame ==
  [][/\ history' = history
     /\ \A n \in DOMAIN tags : n \in DOMAIN tags' /\ tags'[n] = tags[n]]_vars

C10_Witness ==
  /\ pc = "done"
  /\ tags0 # NoTags
  /\ tags # tags0
  /\ \E k \in DOMAIN outcomes : outcomes[k].result = "AlreadyExists"

====
